---------------------------- MODULE Spec2Model ----------------------------
(***************************************************************************)
(* A model of the bounding-box transform library                           *)
(* src/xinshuo_math/python/bbox_transform.py.                              *)
(*                                                                         *)
(* The library is a set of functions over numpy arrays.  A state of the    *)
(* model is one call in progress or finished: the function called, the     *)
(* arguments as the caller passed them, the caller's array as it is now    *)
(* (numpy arrays are passed by reference), and the value returned or the   *)
(* exception raised.  apply_rotation_loose is followed through its loop:   *)
(* todo holds the slices it has still to visit.                            *)
(*                                                                         *)
(* Numbers.  A numpy array has one dtype.  An integer array holds          *)
(* two's-complement integers of IntBits bits and wraps on overflow; a      *)
(* float array holds binary floating-point numbers of MantBits significant *)
(* bits, every operation rounding to nearest, ties to even.  The widths    *)
(* are scaled down from 64 and 53 so that the sets stay small; the         *)
(* rounding and wrapping rules are those of the machine.                   *)
(***************************************************************************)
EXTENDS Integers, Sequences, FiniteSets, TLC

VARIABLES pc, fn, arg, mem, ret, todo

vars == <<pc, fn, arg, mem, ret, todo>>

(***************************************************************************)
(* Bounds of the model.                                                    *)
(***************************************************************************)
MantBits == 3
IntBits == 8
SingleBits == 4

RECURSIVE Pow2(_)
Pow2(k) == IF k = 0 THEN 1 ELSE 2 * Pow2(k - 1)

Abs(x) == IF x < 0 THEN -x ELSE x
Min2(a, b) == IF a < b THEN a ELSE b
Max2(a, b) == IF a > b THEN a ELSE b

IntMin == -Pow2(IntBits - 1)
IntMax == Pow2(IntBits - 1) - 1

(***************************************************************************)
(* Integer arithmetic of an integer array: the result wraps.               *)
(***************************************************************************)
IWrap(x) == ((x - IntMin) % Pow2(IntBits)) + IntMin

(***************************************************************************)
(* Floating-point arithmetic of a float array: the exact result is rounded *)
(* to MantBits significant bits, ties to the even mantissa.                *)
(***************************************************************************)
RECURSIVE Ulp(_, _)
Ulp(a, q) == IF a < Pow2(MantBits) * q THEN q ELSE Ulp(a, 2 * q)

FRound(x) ==
    LET q == Ulp(Abs(x), 1)
        lo == (x \div q) * q
        r == x - lo
    IN  IF 2 * r < q THEN lo
        ELSE IF 2 * r > q THEN lo + q
        ELSE IF (lo \div q) % 2 = 0 THEN lo ELSE lo + q

Cast(dtype, x) == IF dtype = "float" THEN FRound(x) ELSE IWrap(x)

NpAdd(dtype, a, b) == Cast(dtype, a + b)
NpSub(dtype, a, b) == Cast(dtype, a - b)

(***************************************************************************)
(* The value a call ends with: a returned value, or the exception raised.  *)
(***************************************************************************)
Returned(v) == [err |-> "none", val |-> v]
Raised(e) == [err |-> e, val |-> <<>>]
NoValue == [err |-> "pending", val |-> <<>>]

Array(dtype, rows) == [dtype |-> dtype, rows |-> rows]


(***************************************************************************)
(* The exceptions the library raises: every one is a failed assert, told   *)
(* apart by its message.                                                   *)
(***************************************************************************)
InvalidBoxFormat == "AssertionError: the input bounding box should be TLBR format"
InvalidImageSize == "AssertionError: the image width and height are not correct"
BadBoxes == "AssertionError: the input bboxes are not good"

(***************************************************************************)
(* Helpers imported from modules of the repository that are not among the  *)
(* sources (private, xinshuo_miscellaneous).                                *)
(***************************************************************************)
\* safe_bbox: a single box (4 numbers) or an N x 4 matrix, as an N x 4 matrix.
safe_bbox(bboxes_in) == Array(bboxes_in.dtype, bboxes_in.rows)

\* bboxcheck_TLBR: every row has x1 <= x2 and y1 <= y2.
bboxcheck_TLBR(np_bboxes) ==
    \A i \in 1..Len(np_bboxes.rows) :
        /\ np_bboxes.rows[i][1] <= np_bboxes.rows[i][3]
        /\ np_bboxes.rows[i][2] <= np_bboxes.rows[i][4]

\* bboxcheck_TLWH: every row has w >= 0 and h >= 0.
bboxcheck_TLWH(np_bboxes) ==
    \A i \in 1..Len(np_bboxes.rows) :
        /\ np_bboxes.rows[i][3] >= 0
        /\ np_bboxes.rows[i][4] >= 0

\* isinteger: the value is of an integer type.
isinteger(x) == x.type = "int"

(***************************************************************************)
(* Format conversion.                                                      *)
(***************************************************************************)
TLBR2TLWH_unchecked(bboxes_in, debug) ==
    LET np_bboxes == safe_bbox(bboxes_in)
        dt == np_bboxes.dtype
    IN  Returned(Array(dt, [i \in 1..Len(np_bboxes.rows) |->
            LET r == np_bboxes.rows[i]
            IN  <<r[1], r[2], NpSub(dt, r[3], r[1]), NpSub(dt, r[4], r[2])>>]))

bbox_TLBR2TLWH(bboxes_in, debug) ==
    LET np_bboxes == safe_bbox(bboxes_in)
        dt == np_bboxes.dtype
    IN  IF debug /\ ~bboxcheck_TLBR(np_bboxes) THEN Raised(InvalidBoxFormat)
        ELSE Returned(Array(dt, [i \in 1..Len(np_bboxes.rows) |->
            LET r == np_bboxes.rows[i]
            IN  <<r[1], r[2], NpSub(dt, r[3], r[1]), NpSub(dt, r[4], r[2])>>]))

TLWH2TLBR_width_only(bboxes_in, debug) ==
    LET np_bboxes == safe_bbox(bboxes_in)
        dt == np_bboxes.dtype
    IN  IF debug /\ ~bboxcheck_TLWH(np_bboxes) THEN Raised(InvalidBoxFormat)
        ELSE Returned(Array(dt, [i \in 1..Len(np_bboxes.rows) |->
            LET r == np_bboxes.rows[i]
            IN  <<r[1], r[2], r[3], NpAdd(dt, r[4], r[2])>>]))

bbox_TLWH2TLBR(bboxes_in, debug) ==
    LET np_bboxes == safe_bbox(bboxes_in)
        dt == np_bboxes.dtype
    IN  IF debug /\ ~bboxcheck_TLWH(np_bboxes) THEN Raised(InvalidBoxFormat)
        ELSE Returned(Array(dt, [i \in 1..Len(np_bboxes.rows) |->
            LET r == np_bboxes.rows[i]
            IN  <<r[1], r[2], NpAdd(dt, r[3], r[1]), NpAdd(dt, r[4], r[2])>>]))

(***************************************************************************)
(* Clipping.  np.minimum and np.maximum are exact; the value stored is     *)
(* cast to the dtype of the array.                                         *)
(***************************************************************************)
ClampLowOnly(dt, x, size) == Cast(dt, Max2(x, 0))

Clamp(dt, x, size) == Cast(dt, Max2(Min2(x, size.val), 0))

clip_bboxes_TLBR_unchecked(bboxes_in, im_width, im_height, debug) ==
    LET np_bboxes == safe_bbox(bboxes_in)
        dt == np_bboxes.dtype
    IN  Returned(Array(dt, [i \in 1..Len(np_bboxes.rows) |->
            LET r == np_bboxes.rows[i]
            IN  <<Clamp(dt, r[1], im_width), Clamp(dt, r[2], im_height),
                  Clamp(dt, r[3], im_width), Clamp(dt, r[4], im_height)>>]))

clip_bboxes_TLBR(bboxes_in, im_width, im_height, debug) ==
    LET np_bboxes == safe_bbox(bboxes_in)
        dt == np_bboxes.dtype
    IN  IF debug /\ ~(isinteger(im_width) /\ isinteger(im_height))
        THEN Raised(InvalidImageSize)
        ELSE IF debug /\ ~bboxcheck_TLBR(np_bboxes) THEN Raised(BadBoxes)
        ELSE Returned(Array(dt, [i \in 1..Len(np_bboxes.rows) |->
            LET r == np_bboxes.rows[i]
            IN  <<Clamp(dt, r[1], im_width), Clamp(dt, r[2], im_height),
                  Clamp(dt, r[3], im_width), Clamp(dt, r[4], im_height)>>]))

clip_bboxes_TLWH(bboxes_in, im_width, im_height, debug) ==
    LET np_bboxes == safe_bbox(bboxes_in)
    IN  IF debug /\ ~(isinteger(im_width) /\ isinteger(im_height))
        THEN Raised(InvalidImageSize)
        ELSE IF debug /\ ~bboxcheck_TLWH(np_bboxes) THEN Raised(BadBoxes)
        ELSE LET bboxes_TLBR == bbox_TLWH2TLBR(np_bboxes, debug)
             IN  IF bboxes_TLBR.err # "none" THEN bboxes_TLBR
                 ELSE LET clipped_bboxes_TLBR ==
                              clip_bboxes_TLBR(bboxes_TLBR.val, im_width, im_height, debug)
                      IN  IF clipped_bboxes_TLBR.err # "none" THEN clipped_bboxes_TLBR
                          ELSE bbox_TLBR2TLWH(clipped_bboxes_TLBR.val, debug)


(***************************************************************************)
(* Points into and out of the frame of a box.  A point array has 2 rows    *)
(* (x, y) or 3 (x, y, occlusion), one column per point; here the points    *)
(* and the box have the same dtype, so that the difference is computed and *)
(* stored in that dtype.                                                   *)
(***************************************************************************)
BadPoints == "AssertionError: the input points should have shape: 2 or 3 x num_pts"
BadBox == "AssertionError: the input bounding box is not correct"

\* is2dptsarray or is2dptsarray_occlusion: 2 or 3 rows of the same length >= 1.
is2dptsarray(pts_array) ==
    /\ Len(pts_array.rows) \in {2, 3}
    /\ \A i \in 1..Len(pts_array.rows) : Len(pts_array.rows[i]) = Len(pts_array.rows[1])
    /\ Len(pts_array.rows[1]) >= 1

\* isbbox: an N x 4 matrix with N >= 1.
isbbox(np_bboxes) ==
    /\ Len(np_bboxes.rows) >= 1
    /\ \A i \in 1..Len(np_bboxes.rows) : Len(np_bboxes.rows[i]) = 4

\* The point array with its x row and its y row replaced: pts_array.copy()
\* and the two row assignments.
WithXY(pts_array, xs, ys) ==
    Array(pts_array.dtype,
          [k \in 1..Len(pts_array.rows) |->
              IF k = 1 THEN xs ELSE IF k = 2 THEN ys ELSE pts_array.rows[k]])

pts_conversion_bbox_x_only(pts_array, bboxes_in, debug) ==
    LET np_bboxes == safe_bbox(bboxes_in)
        dt == pts_array.dtype
    IN  Returned(WithXY(pts_array,
            [j \in 1..Len(pts_array.rows[1]) |-> NpSub(dt, pts_array.rows[1][j], np_bboxes.rows[1][1])],
            pts_array.rows[2]))

pts_conversion_bbox(pts_array, bboxes_in, debug) ==
    LET np_bboxes == safe_bbox(bboxes_in)
        dt == pts_array.dtype
    IN  IF debug /\ ~is2dptsarray(pts_array) THEN Raised(BadPoints)
        ELSE IF debug /\ ~isbbox(np_bboxes) THEN Raised(BadBox)
        ELSE Returned(WithXY(pts_array,
            [j \in 1..Len(pts_array.rows[1]) |-> NpSub(dt, pts_array.rows[1][j], np_bboxes.rows[1][1])],
            [j \in 1..Len(pts_array.rows[2]) |-> NpSub(dt, pts_array.rows[2][j], np_bboxes.rows[1][2])]))

pts_conversion_back_bbox(pts_array, bboxes_in, debug) ==
    LET np_bboxes == safe_bbox(bboxes_in)
        dt == pts_array.dtype
    IN  IF debug /\ ~is2dptsarray(pts_array) THEN Raised(BadPoints)
        ELSE IF debug /\ ~isbbox(np_bboxes) THEN Raised(BadBox)
        ELSE Returned(WithXY(pts_array,
            [j \in 1..Len(pts_array.rows[1]) |-> NpAdd(dt, pts_array.rows[1][j], np_bboxes.rows[1][1])],
            [j \in 1..Len(pts_array.rows[2]) |-> NpAdd(dt, pts_array.rows[2][j], np_bboxes.rows[1][2])]))

(***************************************************************************)
(* Exact fractions, for the functions that divide: a fraction is n / d     *)
(* with d > 0 in lowest terms.  The float rounding of these functions is   *)
(* not modelled: their claims are stated up to a tolerance.                *)
(***************************************************************************)
RECURSIVE GCD(_, _)
GCD(a, b) == IF b = 0 THEN a ELSE GCD(b, a % b)

Q(n, d) ==
    LET g == GCD(Abs(n), Abs(d))
        sgn == IF d < 0 THEN -1 ELSE 1
    IN  [n |-> sgn * (n \div g), d |-> sgn * (d \div g)]

QInt(i) == [n |-> i, d |-> 1]
QAdd(a, b) == Q(a.n * b.d + b.n * a.d, a.d * b.d)
QSub(a, b) == Q(a.n * b.d - b.n * a.d, a.d * b.d)
QMul(a, b) == Q(a.n * b.n, a.d * b.d)
QDiv(a, b) == Q(a.n * b.d, a.d * b.n)
QLt(a, b) == a.n * b.d < b.n * a.d
QLe(a, b) == a.n * b.d <= b.n * a.d
QAbs(a) == [n |-> Abs(a.n), d |-> a.d]
QHalf == Q(1, 2)

\* A row of integers as a row of fractions, and a matrix of them.
QRow(r) == [k \in 1..Len(r) |-> QInt(r[k])]
QRows(rows) == [i \in 1..Len(rows) |-> QRow(rows[i])]

(***************************************************************************)
(* Regression targets.  np.log of a positive fraction is kept as that      *)
(* fraction under a logarithm; np.exp gives the fraction back.  The        *)
(* widths of the boxes passed are positive, so no logarithm is of a        *)
(* number <= 0.                                                            *)
(***************************************************************************)
NpLog(q) == [ln |-> q]
NpExp(l) == l.ln

TransformRow(ex, gt) ==
    LET ex_widths == QAdd(QSub(ex[3], ex[1]), QInt(1))
        ex_heights == QAdd(QSub(ex[4], ex[2]), QInt(1))
        ex_ctr_x == QAdd(ex[1], QMul(QHalf, ex_widths))
        ex_ctr_y == QAdd(ex[2], QMul(QHalf, ex_heights))
        gt_widths == QAdd(QSub(gt[3], gt[1]), QInt(1))
        gt_heights == QAdd(QSub(gt[4], gt[2]), QInt(1))
        gt_ctr_x == QAdd(gt[1], QMul(QHalf, gt_widths))
        gt_ctr_y == QAdd(gt[2], QMul(QHalf, gt_heights))
    IN  << QDiv(QSub(gt_ctr_x, ex_ctr_x), ex_widths),
           QDiv(QSub(gt_ctr_y, ex_ctr_y), ex_heights),
           NpLog(QDiv(gt_widths, ex_widths)),
           NpLog(QDiv(gt_heights, ex_heights)) >>

bbox_transform(ex_rois, gt_rois) ==
    Returned([i \in 1..Len(ex_rois) |-> TransformRow(ex_rois[i], gt_rois[i])])

\* Column k of the predicted boxes of one row: class (k - 1) \div 4, field
\* (k - 1) % 4 of x1, y1, x2, y2.
PredField(box, d, k) ==
    LET widths == QAdd(QSub(box[3], box[1]), QInt(1))
        heights == QAdd(QSub(box[4], box[2]), QInt(1))
        ctr_x == QAdd(box[1], QMul(QHalf, widths))
        ctr_y == QAdd(box[2], QMul(QHalf, heights))
        c == 4 * ((k - 1) \div 4)
        pred_ctr_x == QAdd(QMul(d[c + 1], widths), ctr_x)
        pred_ctr_y == QAdd(QMul(d[c + 2], heights), ctr_y)
        pred_w == QMul(NpExp(d[c + 3]), widths)
        pred_h == QMul(NpExp(d[c + 4]), heights)
        f == (k - 1) % 4
    IN  IF f = 0 THEN QSub(pred_ctr_x, QMul(QHalf, pred_w))
        ELSE IF f = 1 THEN QSub(pred_ctr_y, QMul(QHalf, pred_h))
        ELSE IF f = 2 THEN QAdd(pred_ctr_x, QMul(QHalf, pred_w))
        ELSE QAdd(pred_ctr_y, QMul(QHalf, pred_h))

bbox_transform_inv(boxes, deltas, debug) ==
    IF Len(boxes) = 0 THEN Returned(<<>>)
    ELSE Returned([i \in 1..Len(boxes) |->
            [k \in 1..Len(deltas[i]) |-> PredField(boxes[i], deltas[i], k)]])

(***************************************************************************)
(* Box enlargement.  The function works on the caller's array itself: it   *)
(* neither coerces nor copies bbox, and its four updates are in place.     *)
(* The sizes are arrays of N elements, and max is Python's builtin, which  *)
(* takes the truth value of (second > first): an error for an array of     *)
(* more than one element.                                                  *)
(***************************************************************************)
DefaultMinLength == 128

AmbiguousTruthValue == "ValueError: The truth value of an array with more than one element is ambiguous"

None == [n |-> 0, d |-> 0]
IsNone(x) == x.d = 0

\* Python's max(a, b) of two arrays of one element: b if b > a, else a.
PyMax(a, b) == IF QLt(a[1], b[1]) THEN b ELSE a

EnlargedRows(bbox, ratio, width_ratio, height_ratio, min_length, min_width, min_height) ==
    LET rows == QRows(bbox.rows)
        N == Len(rows)
        both_ratios == ~IsNone(width_ratio) /\ ~IsNone(height_ratio)
        both_mins == ~IsNone(min_height) /\ ~IsNone(min_width)
        cur_width == [i \in 1..N |-> QSub(rows[i][3], rows[i][1])]
        cur_height == [i \in 1..N |-> QSub(rows[i][4], rows[i][2])]
        width0 == [i \in 1..N |-> QMul(cur_width[i], IF both_ratios THEN width_ratio ELSE ratio)]
        height0 == [i \in 1..N |-> QMul(cur_height[i], IF both_ratios THEN height_ratio ELSE ratio)]
        width == PyMax(width0, [i \in 1..N |->
                        QSub(IF both_mins THEN min_width ELSE min_length, cur_width[i])])
        height == PyMax(height0, [i \in 1..N |->
                        QSub(IF both_mins THEN min_height ELSE min_length, cur_height[i])])
    IN  [i \in 1..N |->
            << QSub(rows[i][1], QMul(width[i], QHalf)),
               QSub(rows[i][2], QMul(height[i], QHalf)),
               QAdd(rows[i][3], QMul(width[i], QHalf)),
               QAdd(rows[i][4], QMul(height[i], QHalf)) >>]

bbox_enlarge(bbox, ratio, width_ratio, height_ratio, min_length, min_width, min_height, debug) ==
    IF debug /\ ~bboxcheck_TLBR(bbox) THEN Raised(InvalidBoxFormat)
    ELSE IF Len(bbox.rows) > 1 THEN Raised(AmbiguousTruthValue)
    ELSE Returned(Array(bbox.dtype,
            EnlargedRows(bbox, ratio, width_ratio, height_ratio, min_length, min_width, min_height)))

(***************************************************************************)
(* Rotation.  The angles are the multiples of 90 degrees, whose sine and   *)
(* cosine are -1, 0 or 1; the image shape is a pair of Python ints         *)
(* (height, width), so that im_width/2 is the integer quotient.  A box is  *)
(* a float array or an integer array: the elements of an integer array are *)
(* integers, whose quotient by im_width is again the integer quotient.     *)
(***************************************************************************)
BoxNotCorrect == "AssertionError: box is not correct"
BadColumns == "AssertionError: The shape of boxes is not multiple of 4"
DegenerateRotation == "DegenerateRotation"

Cos(angle) == CASE angle % 360 = 0 -> 1 [] angle % 360 = 180 -> -1 [] OTHER -> 0
Sin(angle) == CASE angle % 360 = 90 -> 1 [] angle % 360 = 270 -> -1 [] OTHER -> 0

\* One corner (x, y) of the box through normalisation, the affine map and
\* denormalisation.
RotatedCorner(dtype, x, y, angle, image_shape) ==
    LET im_width == image_shape[2]
        im_height == image_shape[1]
        Normalised(v, size) ==
            IF dtype = "int" THEN QInt(((v.n - size \div 2) \div size) * 2)
            ELSE QMul(QDiv(QSub(v, QInt(size \div 2)), QInt(size)), QInt(2))
        nx == Normalised(x, im_width)
        ny == Normalised(y, im_height)
        ox == QAdd(QMul(QInt(Cos(angle)), nx), QMul(QInt(Sin(angle)), ny))
        oy == QAdd(QMul(QInt(-Sin(angle)), nx), QMul(QInt(Cos(angle)), ny))
    IN  << QAdd(QDiv(QMul(ox, QInt(im_width)), QInt(2)), QInt(im_width \div 2)),
           QAdd(QDiv(QMul(oy, QInt(im_height)), QInt(2)), QInt(im_height \div 2)) >>

bbox_rotation_inv(dtype, bbox_in, angle_in_degree, image_shape, debug) ==
    IF debug /\ Len(bbox_in) # 4 THEN Raised(BoxNotCorrect)
    ELSE LET tl == RotatedCorner(dtype, bbox_in[1], bbox_in[2], angle_in_degree, image_shape)
             br == RotatedCorner(dtype, bbox_in[3], bbox_in[4], angle_in_degree, image_shape)
         IN  Returned(<<tl[1], tl[2], br[1], br[2]>>)

\* Lines 341-344 and 395-398 call get_line, a name the module binds nowhere:
\* its import from math_geometry brings get_2Dline_from_pts_slope and
\* get_intersection.  Python looks the callee up before it evaluates the
\* arguments, so the first of these calls raises NameError and neither the
\* frame conversion nor the intersection is ever entered.
UnboundName == "NameError: global name 'get_line' is not defined"

get_line == Raised(UnboundName)

bbox_rotatedtight2rotatedloose(bbox_in, angle_in_degree, debug) ==
    IF debug /\ Len(bbox_in) # 4 THEN Raised(BoxNotCorrect)
    ELSE get_line

bbox_general2rotated_loose(dtype, bbox_in, angle_in_degree, image_shape, debug) ==
    LET bbox == bbox_rotation_inv(dtype, bbox_in, angle_in_degree, image_shape, debug)
    IN  IF bbox.err # "none" THEN bbox
        ELSE bbox_rotatedtight2rotatedloose(bbox.val, angle_in_degree, debug)

apply_rotation_tight(dtype, bbox_in, angle_in_degree, im_shape, debug) ==
    IF debug /\ Len(bbox_in) # 4 THEN Raised(BoxNotCorrect)
    ELSE LET bbox_tight == bbox_rotation_inv(dtype, bbox_in, angle_in_degree, im_shape, debug)
         IN  IF bbox_tight.err # "none" THEN bbox_tight
             ELSE get_line

\* apply_rotation_loose: the slice of class cls_ind (from 0) of a row, and
\* the row with that slice replaced.
BoxTmp(all_boxes, row, cls_ind) == SubSeq(all_boxes[row], cls_ind * 4 + 1, (cls_ind + 1) * 4)

WithSlice(all_boxes, row, cls_ind, box) ==
    [all_boxes EXCEPT ![row] =
        [k \in 1..Len(all_boxes[row]) |->
            IF k > cls_ind * 4 /\ k <= (cls_ind + 1) * 4 THEN box[k - cls_ind * 4] ELSE @[k]]]

\* The slices of the matrix in the order of the two loops.
RECURSIVE RowMajor(_, _, _)
RowMajor(num_proposal, num_classes, n) ==
    IF n = num_proposal * num_classes THEN <<>>
    ELSE << <<(n \div num_classes) + 1, n % num_classes>> >> \o RowMajor(num_proposal, num_classes, n + 1)

(***************************************************************************)
(* Centre crop.  The module is Python 2 (xrange, no division import): the   *)
(* quotient of two Python ints, and of an integer array by an int, is      *)
(* the floor; of a float it is the exact half.  The image sizes are        *)
(* Python scalars or None.                                                 *)
(***************************************************************************)
BadCenterShape == "AssertionError: the center bbox does not have a good shape"
MissingImageDimensions == "AssertionError: the image shape should be known when center is not provided"
NoneTypeOperand == "TypeError: unsupported operand type(s) for /: 'NoneType' and 'int'"

NoSize == [type |-> "none", val |-> 0]

\* Helpers of the repository that are not among the sources (private,
\* xinshuo_miscellaneous): the matrix of the input, in the dtype of its
\* numbers, and the test that it has 2 or 4 columns.
safe_center_bbox(center_bboxes_in) == Array(center_bboxes_in.dtype, center_bboxes_in.rows)

iscenterbbox(np_center_bboxes) ==
    /\ Len(np_center_bboxes.rows) >= 1
    /\ \/ \A i \in 1..Len(np_center_bboxes.rows) : Len(np_center_bboxes.rows[i]) = 2
       \/ \A i \in 1..Len(np_center_bboxes.rows) : Len(np_center_bboxes.rows[i]) = 4

\* np.ceil, and the cast of astype('int64'), of an exact value.
NpCeil(q) == QInt(-((-q.n) \div q.d))
AsInt64(q) == IF q.n < 0 THEN -((-q.n) \div q.d) ELSE q.n \div q.d

\* im_width / 2 of a Python scalar.
ScalarHalf(size) == IF size.type = "int" THEN QInt(size.val \div 2) ELSE Q(size.val, 2)

\* crop_width / 2 of an element of the matrix.
ElementHalf(dtype, x) == IF dtype = "int" THEN QInt(x \div 2) ELSE Q(x, 2)

CropRow(dtype, center_x, center_y, crop_width, crop_height) ==
    LET xmin == QSub(center_x, NpCeil(ElementHalf(dtype, crop_width)))
        ymin == QSub(center_y, NpCeil(ElementHalf(dtype, crop_height)))
    IN  << AsInt64(xmin), AsInt64(ymin), crop_width, crop_height >>

get_center_crop_bbox(center_bboxes_in, im_width, im_height, debug) ==
    LET np_center_bboxes == safe_center_bbox(center_bboxes_in)
        rows == np_center_bboxes.rows
        dtype == np_center_bboxes.dtype
    IN  IF debug /\ ~iscenterbbox(np_center_bboxes) THEN Raised(BadCenterShape)
        ELSE IF Len(rows[1]) = 4
        THEN Returned([i \in 1..Len(rows) |->
                CropRow(dtype, QInt(rows[i][1]), QInt(rows[i][2]), rows[i][3], rows[i][4])])
        ELSE IF debug /\ (im_width = NoSize \/ im_height = NoSize) THEN Raised(MissingImageDimensions)
        ELSE IF im_width = NoSize \/ im_height = NoSize THEN Raised(NoneTypeOperand)
        ELSE Returned([i \in 1..Len(rows) |->
                CropRow(dtype, NpCeil(ScalarHalf(im_width)), NpCeil(ScalarHalf(im_height)),
                        rows[i][1], rows[i][2])])

(***************************************************************************)
(* Points to box.  The function does no arithmetic on the coordinates: it  *)
(* takes minima and maxima and stores them in an array of float32, which   *)
(* rounds them to SingleBits significant bits, ties to the even mantissa.  *)
(* vis is False: the plot changes nothing of the value returned.           *)
(***************************************************************************)
InsufficientPoints == "AssertionError: number of points should be larger or equal than 2"
EmptyReduction == "ValueError: zero-size array to reduction operation minimum which has no identity"

RECURSIVE SingleUlp(_, _)
SingleUlp(a, q) == IF a < Pow2(SingleBits) * q THEN q ELSE SingleUlp(a, 2 * q)

Float32(x) ==
    LET q == SingleUlp(Abs(x), 1)
        lo == (x \div q) * q
        r == x - lo
    IN  IF 2 * r < q THEN lo
        ELSE IF 2 * r > q THEN lo + q
        ELSE IF (lo \div q) % 2 = 0 THEN lo ELSE lo + q

NpMin(row) == CHOOSE a \in {row[i] : i \in 1..Len(row)} : \A i \in 1..Len(row) : a <= row[i]

NpMaxOfLast(row) == row[Len(row)]

NpMax(row) == CHOOSE a \in {row[i] : i \in 1..Len(row)} : \A i \in 1..Len(row) : a >= row[i]

pts2bbox(pts, debug) ==
    IF debug /\ ~is2dptsarray(pts) THEN Raised(BadPoints)
    ELSE IF debug /\ Len(pts.rows[1]) < 2 THEN Raised(InsufficientPoints)
    ELSE IF Len(pts.rows[1]) = 0 THEN Raised(EmptyReduction)
    ELSE Returned(Array("float32",
            << << Float32(NpMin(pts.rows[1])), Float32(NpMin(pts.rows[2])),
                  Float32(NpMax(pts.rows[1])), Float32(NpMax(pts.rows[2])) >> >>))

(***************************************************************************)
(* Inputs.  A box argument is a single box (shape (4,)) or a matrix (shape *)
(* (N, 4)), of integers or of floats; floats are drawn from the numbers    *)
(* the float format represents.                                            *)
(***************************************************************************)
IntCoords == {IntMin, -3, 0, 40, 60, IntMax}
FloatCoords == {-3, 0, 1, Pow2(MantBits), Pow2(MantBits) + 2}

CoordsOf(dtype) == IF dtype = "float" THEN FloatCoords ELSE IntCoords

Dtypes == {"int", "float"}

Input(dtype, shape, rows) == [dtype |-> dtype, shape |-> shape, rows |-> rows]

NoOrigin == Input("none", "none", <<>>)

\* Single boxes and one-row matrices over the whole coordinate set.
BoxesOver(C) == C \X C \X C \X C

OneBoxInputs ==
    UNION { { Input(dt, sh, <<b>>) : sh \in {"4", "Nx4"}, b \in BoxesOver(CoordsOf(dt)) }
            : dt \in Dtypes }

\* The rows of the matrices of several rows.
FewRows(dtype) ==
    IF dtype = "float"
    THEN {<<0, 0, 1, 3>>, <<1, -1, Pow2(MantBits) + 2, 3>>, <<3, 0, 1, 1>>}
    ELSE {<<0, 0, 40, 50>>, <<-3, -2, 50, 60>>, <<IntMin, 0, IntMax, 0>>, <<0, 0, 40, -2>>}

TwoBoxInputs ==
    UNION { { Input(dt, "Nx4", <<b, c>>) : b \in FewRows(dt), c \in FewRows(dt) } : dt \in Dtypes }

BoxInputs == OneBoxInputs \cup TwoBoxInputs

\* An image size: a Python int or a Python float.
Size(type, val) == [type |-> type, val |-> val]
ImSizes == {Size("int", -2), Size("int", 0), Size("int", 3), Size("int", 40), Size("float", 40)}

ClipIntCoords == {-3, 50, 60}
ClipFloatCoords == {-3, Pow2(MantBits) + 2}
ClipCoordsOf(dtype) == IF dtype = "float" THEN ClipFloatCoords ELSE ClipIntCoords

ClipInputs ==
    UNION { { Input(dt, "Nx4", <<b>>) : b \in BoxesOver(ClipCoordsOf(dt)) } : dt \in Dtypes }
    \cup { Input("int", sh, << <<-3, -2, 50, 60>> >>) : sh \in {"4", "Nx4"} }
    \cup TwoBoxInputs

\* Point arrays of one or two points, with and without the occlusion row.
PtsIntCoords == {IntMin, -2, 5, IntMax}
PtsFloatCoords == {-3, 1, Pow2(MantBits) + 2}
PtsCoordsOf(dtype) == IF dtype = "float" THEN PtsFloatCoords ELSE PtsIntCoords

CoordRows(C) == { <<a>> : a \in C } \cup { <<a, b>> : a \in C, b \in C }

PtsOver(dt, C) ==
    LET xy == { <<xs, ys>> \in CoordRows(C) \X CoordRows(C) : Len(xs) = Len(ys) }
    IN  { Array(dt, r) : r \in xy }
        \cup { Array(dt, <<r[1], r[2], [j \in 1..Len(r[1]) |-> j % 2]>>) : r \in xy }

PtsInputs == UNION { PtsOver(dt, PtsCoordsOf(dt)) : dt \in Dtypes }

PtsBoxes(dt) ==
    { Input(dt, "Nx4", <<b>>) :
        b \in IF dt = "float"
              THEN {<<0, 0, 1, 3>>, <<1, -1, Pow2(MantBits) + 2, 3>>, <<-3, 3, 1, Pow2(MantBits)>>}
              ELSE {<<0, 0, 40, 50>>, <<-3, -2, 50, 60>>, <<5, IntMax, 40, IntMax>>} }

\* Anchors and targets of the regression: TLBR boxes with x1 <= x2, y1 <= y2.
RoiCoords == {0, 2, 9}
Rois == { b \in BoxesOver(RoiCoords) : b[1] <= b[3] /\ b[2] <= b[4] }
FewRois == {<<0, 0, 9, 9>>, <<2, 0, 5, 9>>, <<5, 5, 5, 5>>}
RoiPairs ==
    { <<QRows(<<a>>), QRows(<<t>>)>> : a \in Rois, t \in Rois }
    \cup { <<QRows(<<a, b>>), QRows(<<t, u>>)>> : a \in FewRois, b \in FewRois, t \in FewRois, u \in FewRois }

\* Deltas of one and of two classes, for a direct call of the decoder.
ZeroDelta == <<QInt(0), QInt(0), NpLog(QInt(1)), NpLog(QInt(1))>>
ShiftDelta == <<Q(1, 2), Q(-1, 4), NpLog(QInt(2)), NpLog(Q(1, 2))>>
DeltaRows == {ZeroDelta, ShiftDelta, ZeroDelta \o ShiftDelta, ShiftDelta \o ZeroDelta}
DecodeInputs ==
    { <<QRows(<<a>>), <<d>>>> : a \in FewRois, d \in DeltaRows }
    \cup { <<QRows(<<a, b>>), <<d, d>>>> : a \in FewRois, b \in FewRois, d \in DeltaRows }
    \cup { <<<<>>, <<>>>> }

\* Float arrays of one and of two boxes for bbox_enlarge, and its options.
EnlargeRows == {<<0, 0, 10, 10>>, <<2, 1, 6, 9>>, <<3, 3, 3, 3>>}
EnlargeInputs ==
    { Input("float", "Nx4", <<b>>) : b \in EnlargeRows \cup {<<5, 0, 1, 4>>} }
    \cup { Input("float", "Nx4", <<b, c>>) : b \in EnlargeRows, c \in EnlargeRows }
Ratios == {Q(1, 5), Q(1, 2), QInt(0)}
RatioPairs == {<<None, None>>, <<Q(1, 2), Q(1, 5)>>, <<Q(1, 2), None>>}
MinLengths == {QInt(0), QInt(12), QInt(DefaultMinLength)}
MinPairs == {<<None, None>>, <<QInt(12), QInt(2)>>, <<None, QInt(2)>>}

\* Rotation inputs.
Angles == {0, 90, 180, 270, -90}
ImageShapes == {<<4, 8>>, <<5, 5>>}
RotBoxes == {<<0, 0, 2, 2>>, <<1, 0, 3, 4>>, <<2, 3, 8, 4>>, <<3, 1, 1, 0>>}
SliceBoxes == {<<0, 0, 2, 2>>, <<1, 0, 3, 4>>}
DetectionMatrices ==
    { <<a>> : a \in SliceBoxes }
    \cup { <<a \o b>> : a \in SliceBoxes, b \in SliceBoxes }
    \cup { <<a, b>> : a \in SliceBoxes, b \in SliceBoxes }
    \cup { <<a \o b, b \o a>> : a \in SliceBoxes, b \in SliceBoxes }
    \cup { <<<<0, 0, 2, 2, 1, 1>>>> }

\* Every order of the slices of a matrix; RowMajor is the order of the code.
Orders(num_proposal, num_classes) ==
    LET slices == (1..num_proposal) \X (0..(num_classes - 1))
        n == num_proposal * num_classes
    IN  { o \in [1..n -> slices] : \A i \in 1..n, j \in 1..n : o[i] = o[j] => i = j }

\* Centre-crop inputs: odd and even crop sizes and image sizes.
CropSizes == {2, 3}
CropCenters == {4, 5}
CropPairs == { <<w, h>> : w \in CropSizes, h \in CropSizes }
CropQuads == { <<x, y, w, h>> : x \in CropCenters, y \in CropCenters, w \in CropSizes, h \in CropSizes }
CropInputs ==
    { Input(dt, "Nx2", <<c>>) : dt \in Dtypes, c \in CropPairs }
    \cup { Input(dt, "Nx2", <<c, d>>) : dt \in Dtypes, c \in CropPairs, d \in CropPairs }
    \cup { Input(dt, "Nx4", <<c>>) : dt \in Dtypes, c \in CropQuads }
    \cup { Input(dt, "Nx3", <<<<4, 2, 3>>>>) : dt \in Dtypes }
CropImSizes == {NoSize, Size("int", 4), Size("int", 5), Size("float", 5)}

\* Point sets of pts2bbox: none to three points, with or without the
\* occlusion row, among them the points (2,3), (5,1), (4,9) and a coordinate
\* that float32 does not represent.
BoxPtsXs == {2, 5, Pow2(SingleBits) + 1}
BoxPtsYs == {1, 9, -(Pow2(SingleBits) + 3)}
RowsOver(C) ==
    {<<>>} \cup { <<a>> : a \in C } \cup { <<a, b>> : a \in C, b \in C } \cup { <<2, 5, 4>>, <<3, 1, 9>> }
BoxPtsInputs ==
    LET xy == { r \in RowsOver(BoxPtsXs) \X RowsOver(BoxPtsYs) :
                    /\ Len(r[1]) = Len(r[2])
                    /\ Len(r[1]) = 3 => r = << <<2, 5, 4>>, <<3, 1, 9>> >> }
    IN  { Array(dt, <<r[1], r[2]>>) : dt \in Dtypes, r \in xy }
        \cup { Array(dt, <<r[1], r[2], [j \in 1..Len(r[1]) |-> j % 2]>>) : dt \in Dtypes, r \in xy }

(***************************************************************************)
(* The calls.  A call starts from the idle caller and ends in "done" with  *)
(* the value returned or the exception raised; mem is the caller's array   *)
(* after the call.                                                         *)
(***************************************************************************)
Init ==
    /\ pc = "idle"
    /\ fn = "none"
    /\ arg = [bboxes_in |-> NoOrigin]
    /\ mem = NoOrigin
    /\ ret = NoValue
    /\ todo = <<>>

Call_bbox_TLBR2TLWH ==
    /\ pc = "idle"
    /\ \E b \in BoxInputs, debug \in BOOLEAN :
        /\ fn' = "bbox_TLBR2TLWH"
        /\ arg' = [bboxes_in |-> b, debug |-> debug, origin |-> NoOrigin]
        /\ mem' = b
        /\ ret' = bbox_TLBR2TLWH(b, debug)
    /\ pc' = "done"
    /\ todo' = <<>>

Call_bbox_TLWH2TLBR ==
    /\ pc = "idle"
    /\ \E b \in BoxInputs, debug \in BOOLEAN :
        /\ fn' = "bbox_TLWH2TLBR"
        /\ arg' = [bboxes_in |-> b, debug |-> debug, origin |-> NoOrigin]
        /\ mem' = b
        /\ ret' = bbox_TLWH2TLBR(b, debug)
    /\ pc' = "done"
    /\ todo' = <<>>

\* The caller converts back what bbox_TLBR2TLWH returned.
Back_bbox_TLWH2TLBR ==
    /\ pc = "done"
    /\ fn = "bbox_TLBR2TLWH"
    /\ ret.err = "none"
    /\ \E debug \in BOOLEAN :
        /\ arg' = [bboxes_in |-> Input(ret.val.dtype, "Nx4", ret.val.rows),
                   debug |-> debug, origin |-> arg.bboxes_in]
        /\ mem' = Input(ret.val.dtype, "Nx4", ret.val.rows)
        /\ ret' = bbox_TLWH2TLBR(ret.val, debug)
    /\ fn' = "bbox_TLWH2TLBR"
    /\ pc' = "done"
    /\ todo' = <<>>

Call_clip_bboxes_TLBR ==
    /\ pc = "idle"
    /\ \E b \in ClipInputs, w \in ImSizes, h \in ImSizes, debug \in BOOLEAN :
        /\ fn' = "clip_bboxes_TLBR"
        /\ arg' = [bboxes_in |-> b, im_width |-> w, im_height |-> h, debug |-> debug]
        /\ mem' = b
        /\ ret' = clip_bboxes_TLBR(b, w, h, debug)
    /\ pc' = "done"
    /\ todo' = <<>>

Call_clip_bboxes_TLWH ==
    /\ pc = "idle"
    /\ \E b \in ClipInputs, w \in ImSizes, h \in ImSizes, debug \in BOOLEAN :
        /\ fn' = "clip_bboxes_TLWH"
        /\ arg' = [bboxes_in |-> b, im_width |-> w, im_height |-> h, debug |-> debug]
        /\ mem' = b
        /\ ret' = clip_bboxes_TLWH(b, w, h, debug)
    /\ pc' = "done"
    /\ todo' = <<>>

Call_pts_conversion_bbox ==
    /\ pc = "idle"
    /\ \E p \in PtsInputs, debug \in BOOLEAN :
        \E b \in PtsBoxes(p.dtype) :
            /\ fn' = "pts_conversion_bbox"
            /\ arg' = [pts_array |-> p, bboxes_in |-> b, debug |-> debug, origin |-> NoOrigin]
            /\ mem' = p
            /\ ret' = pts_conversion_bbox(p, b, debug)
    /\ pc' = "done"
    /\ todo' = <<>>

Call_pts_conversion_back_bbox ==
    /\ pc = "idle"
    /\ \E p \in PtsInputs, debug \in BOOLEAN :
        \E b \in PtsBoxes(p.dtype) :
            /\ fn' = "pts_conversion_back_bbox"
            /\ arg' = [pts_array |-> p, bboxes_in |-> b, debug |-> debug, origin |-> NoOrigin]
            /\ mem' = p
            /\ ret' = pts_conversion_back_bbox(p, b, debug)
    /\ pc' = "done"
    /\ todo' = <<>>

\* The caller maps back, with the same box, the points pts_conversion_bbox
\* returned.
Back_pts_conversion_back_bbox ==
    /\ pc = "done"
    /\ fn = "pts_conversion_bbox"
    /\ ret.err = "none"
    /\ \E debug \in BOOLEAN :
        /\ arg' = [pts_array |-> ret.val, bboxes_in |-> arg.bboxes_in, debug |-> debug,
                   origin |-> arg.pts_array]
        /\ mem' = ret.val
        /\ ret' = pts_conversion_back_bbox(ret.val, arg.bboxes_in, debug)
    /\ fn' = "pts_conversion_back_bbox"
    /\ pc' = "done"
    /\ todo' = <<>>

Call_bbox_transform ==
    /\ pc = "idle"
    /\ \E pair \in RoiPairs :
        /\ arg' = [ex_rois |-> pair[1], gt_rois |-> pair[2]]
        /\ mem' = pair[1]
        /\ ret' = bbox_transform(pair[1], pair[2])
    /\ fn' = "bbox_transform"
    /\ pc' = "done"
    /\ todo' = <<>>

Call_bbox_transform_inv ==
    /\ pc = "idle"
    /\ \E pair \in DecodeInputs, debug \in BOOLEAN :
        /\ arg' = [boxes |-> pair[1], deltas |-> pair[2], debug |-> debug, gt_rois |-> <<>>]
        /\ mem' = pair[1]
        /\ ret' = bbox_transform_inv(pair[1], pair[2], debug)
    /\ fn' = "bbox_transform_inv"
    /\ pc' = "done"
    /\ todo' = <<>>

\* The caller decodes, against the same anchors, the targets bbox_transform
\* returned.
Back_bbox_transform_inv ==
    /\ pc = "done"
    /\ fn = "bbox_transform"
    /\ ret.err = "none"
    /\ \E debug \in BOOLEAN :
        /\ arg' = [boxes |-> arg.ex_rois, deltas |-> ret.val, debug |-> debug,
                   gt_rois |-> arg.gt_rois]
        /\ mem' = arg.ex_rois
        /\ ret' = bbox_transform_inv(arg.ex_rois, ret.val, debug)
    /\ fn' = "bbox_transform_inv"
    /\ pc' = "done"
    /\ todo' = <<>>

\* bbox_enlarge updates the caller's array and returns it: after a call that
\* returns, mem is the array returned.
Call_bbox_enlarge ==
    /\ pc = "idle"
    /\ \E b \in EnlargeInputs, ratio \in Ratios, rp \in RatioPairs,
          min_length \in MinLengths, mp \in MinPairs, debug \in BOOLEAN :
        LET r == bbox_enlarge(b, ratio, rp[1], rp[2], min_length, mp[1], mp[2], debug)
        IN  /\ arg' = [bbox |-> b, ratio |-> ratio, width_ratio |-> rp[1], height_ratio |-> rp[2],
                       min_length |-> min_length, min_width |-> mp[1], min_height |-> mp[2],
                       debug |-> debug]
            /\ mem' = IF r.err = "none" THEN r.val ELSE Array(b.dtype, QRows(b.rows))
            /\ ret' = r
    /\ fn' = "bbox_enlarge"
    /\ pc' = "done"
    /\ todo' = <<>>

Call_bbox_rotation_inv ==
    /\ pc = "idle"
    /\ \E dt \in Dtypes, b \in RotBoxes, angle \in Angles, shape \in ImageShapes, debug \in BOOLEAN :
        /\ arg' = [dtype |-> dt, bbox_in |-> QRow(b), angle_in_degree |-> angle,
                   image_shape |-> shape, debug |-> debug]
        /\ mem' = QRow(b)
        /\ ret' = bbox_rotation_inv(dt, QRow(b), angle, shape, debug)
    /\ fn' = "bbox_rotation_inv"
    /\ pc' = "done"
    /\ todo' = <<>>

Call_bbox_rotatedtight2rotatedloose ==
    /\ pc = "idle"
    /\ \E b \in RotBoxes, angle \in Angles, debug \in BOOLEAN :
        /\ arg' = [bbox_in |-> QRow(b), angle_in_degree |-> angle, debug |-> debug]
        /\ mem' = QRow(b)
        /\ ret' = bbox_rotatedtight2rotatedloose(QRow(b), angle, debug)
    /\ fn' = "bbox_rotatedtight2rotatedloose"
    /\ pc' = "done"
    /\ todo' = <<>>

Call_bbox_general2rotated_loose ==
    /\ pc = "idle"
    /\ \E dt \in Dtypes, b \in RotBoxes, angle \in Angles, shape \in ImageShapes, debug \in BOOLEAN :
        /\ arg' = [dtype |-> dt, bbox_in |-> QRow(b), angle_in_degree |-> angle,
                   image_shape |-> shape, debug |-> debug]
        /\ mem' = QRow(b)
        /\ ret' = bbox_general2rotated_loose(dt, QRow(b), angle, shape, debug)
    /\ fn' = "bbox_general2rotated_loose"
    /\ pc' = "done"
    /\ todo' = <<>>

Call_apply_rotation_tight ==
    /\ pc = "idle"
    /\ \E dt \in Dtypes, b \in RotBoxes, angle \in Angles, shape \in ImageShapes, debug \in BOOLEAN :
        /\ arg' = [dtype |-> dt, bbox_in |-> QRow(b), angle_in_degree |-> angle,
                   image_shape |-> shape, debug |-> debug]
        /\ mem' = QRow(b)
        /\ ret' = apply_rotation_tight(dt, QRow(b), angle, shape, debug)
    /\ fn' = "apply_rotation_tight"
    /\ pc' = "done"
    /\ todo' = <<>>

\* apply_rotation_loose is entered (with a matrix of floats, as detections
\* are): the column count is asserted, and the
\* loops are about to visit the slices.  The code visits them row by row,
\* class by class; the order is an input here, so that every order is
\* followed.
Call_apply_rotation_loose ==
    /\ pc = "idle"
    /\ \E m \in DetectionMatrices, angle \in Angles, shape \in ImageShapes, debug \in BOOLEAN :
        /\ mem' = QRows(m)
        /\ IF Len(m[1]) % 4 # 0
           THEN /\ arg' = [all_boxes |-> QRows(m), angle_in_degree |-> angle, image_shape |-> shape,
                           debug |-> debug, order |-> <<>>]
                /\ pc' = "done"
                /\ ret' = Raised(BadColumns)
                /\ todo' = <<>>
           ELSE \E order \in Orders(Len(m), Len(m[1]) \div 4) :
                /\ arg' = [all_boxes |-> QRows(m), angle_in_degree |-> angle, image_shape |-> shape,
                           debug |-> debug, order |-> order]
                /\ pc' = "loop"
                /\ ret' = NoValue
                /\ todo' = order
    /\ fn' = "apply_rotation_loose"

\* One pass of the loop body: the slice is read from the caller's array,
\* transformed, and written back in its place; after the last slice the
\* caller's array is returned.
Step_apply_rotation_loose ==
    /\ pc = "loop"
    /\ todo # <<>>
    /\ LET row == Head(todo)[1]
           cls_ind == Head(todo)[2]
           box_tmp == BoxTmp(mem, row, cls_ind)
           r == bbox_general2rotated_loose("float", box_tmp, arg.angle_in_degree, arg.image_shape, arg.debug)
       IN  IF r.err # "none"
           THEN /\ mem' = mem
                /\ ret' = r
                /\ pc' = "done"
                /\ todo' = Tail(todo)
           ELSE /\ mem' = WithSlice(mem, row, cls_ind, r.val)
                /\ todo' = Tail(todo)
                /\ pc' = IF Tail(todo) = <<>> THEN "done" ELSE "loop"
                /\ ret' = IF Tail(todo) = <<>> THEN Returned(WithSlice(mem, row, cls_ind, r.val)) ELSE ret
    /\ UNCHANGED <<fn, arg>>

Call_get_center_crop_bbox ==
    /\ pc = "idle"
    /\ \E c \in CropInputs, w \in CropImSizes, h \in CropImSizes, debug \in BOOLEAN :
        /\ arg' = [center_bboxes_in |-> c, im_width |-> w, im_height |-> h, debug |-> debug]
        /\ mem' = c
        /\ ret' = get_center_crop_bbox(c, w, h, debug)
    /\ fn' = "get_center_crop_bbox"
    /\ pc' = "done"
    /\ todo' = <<>>

Call_pts2bbox ==
    /\ pc = "idle"
    /\ \E pts \in BoxPtsInputs, debug \in BOOLEAN :
        /\ arg' = [pts |-> pts, debug |-> debug]
        /\ mem' = pts
        /\ ret' = pts2bbox(pts, debug)
    /\ fn' = "pts2bbox"
    /\ pc' = "done"
    /\ todo' = <<>>

\* The call is over; the caller drops its values.
Return ==
    /\ pc = "done"
    /\ pc' = "idle"
    /\ todo' = <<>>
    /\ fn' = "none"
    /\ arg' = [bboxes_in |-> NoOrigin]
    /\ mem' = NoOrigin
    /\ ret' = NoValue

Next ==
    \/ Call_bbox_TLBR2TLWH
    \/ Call_bbox_TLWH2TLBR
    \/ Back_bbox_TLWH2TLBR
    \/ Call_clip_bboxes_TLBR
    \/ Call_clip_bboxes_TLWH
    \/ Call_pts_conversion_bbox
    \/ Call_pts_conversion_back_bbox
    \/ Back_pts_conversion_back_bbox
    \/ Call_bbox_transform
    \/ Call_bbox_transform_inv
    \/ Back_bbox_transform_inv
    \/ Call_bbox_enlarge
    \/ Call_bbox_rotation_inv
    \/ Call_bbox_rotatedtight2rotatedloose
    \/ Call_bbox_general2rotated_loose
    \/ Call_apply_rotation_tight
    \/ Call_apply_rotation_loose
    \/ Step_apply_rotation_loose
    \/ Call_get_center_crop_bbox
    \/ Call_pts2bbox
    \/ Return

Spec == Init /\ [][Next]_vars


(***************************************************************************)
(* Claims.                                                                 *)
(***************************************************************************)
Done(f) == pc = "done" /\ fn = f

\* The round trip of the caller's box b: bbox_TLWH2TLBR called on what
\* bbox_TLBR2TLWH(b) returned.
RoundTripOfValidTLBR ==
    /\ Done("bbox_TLWH2TLBR")
    /\ arg.origin.dtype # "none"
    /\ bboxcheck_TLBR(arg.origin)

\* The widths and heights of the box are computed without rounding or
\* overflow in the dtype of its array.
ExactSizes(b) ==
    \A i \in 1..Len(b.rows) :
        /\ NpSub(b.dtype, b.rows[i][3], b.rows[i][1]) = b.rows[i][3] - b.rows[i][1]
        /\ NpSub(b.dtype, b.rows[i][4], b.rows[i][2]) = b.rows[i][4] - b.rows[i][2]

\* C1 (as stated): for every valid TLBR box b and every row of a matrix,
\* bbox_TLWH2TLBR(bbox_TLBR2TLWH(b)) equals b exactly in all four fields.
C1_RoundTripExact ==
    RoundTripOfValidTLBR => (ret.err = "none" /\ ret.val.rows = arg.origin.rows)

\* C1 (amended): for every valid TLBR box b whose widths x2 - x1 and heights
\* y2 - y1 are computed exactly in the dtype of the array (no float rounding,
\* no integer overflow), bbox_TLWH2TLBR(bbox_TLBR2TLWH(b)) equals b exactly
\* in all four fields, row by row.
C1_RoundTripExactSizes ==
    (RoundTripOfValidTLBR /\ ExactSizes(arg.origin))
        => (ret.err = "none" /\ ret.val.rows = arg.origin.rows)

C1_Witness ==
    /\ RoundTripOfValidTLBR
    /\ ExactSizes(arg.origin)
    /\ arg.origin.dtype = "float"
    /\ Len(arg.origin.rows) = 2
    /\ arg.origin.rows[2][1] < arg.origin.rows[2][3]
    /\ ret.err = "none"
    /\ ret.val.rows = arg.origin.rows

InRange(x, size) == 0 <= x /\ x <= size.val

\* C2: for every box and every image size W >= 0, H >= 0, the box that
\* clip_bboxes_TLBR returns has x1, x2 in [0, W] and y1, y2 in [0, H]; and
\* clip_bboxes_TLBR([-3,-2,50,60], 40, 40) = [0,0,40,40].
C2_ClipInsideImage ==
    Done("clip_bboxes_TLBR") =>
        /\ (arg.im_width.val >= 0 /\ arg.im_height.val >= 0 /\ ret.err = "none") =>
                \A i \in 1..Len(ret.val.rows) :
                    /\ InRange(ret.val.rows[i][1], arg.im_width)
                    /\ InRange(ret.val.rows[i][3], arg.im_width)
                    /\ InRange(ret.val.rows[i][2], arg.im_height)
                    /\ InRange(ret.val.rows[i][4], arg.im_height)
        /\ (/\ arg.bboxes_in.rows = << <<-3, -2, 50, 60>> >>
            /\ arg.im_width = Size("int", 40)
            /\ arg.im_height = Size("int", 40)) =>
                (ret.err = "none" /\ ret.val.rows = << <<0, 0, 40, 40>> >>)

C2_Witness ==
    /\ Done("clip_bboxes_TLBR")
    /\ arg.bboxes_in.rows = << <<-3, -2, 50, 60>> >>
    /\ arg.im_width = Size("int", 40)
    /\ arg.im_height = Size("int", 40)
    /\ ret.err = "none"
    /\ ret.val.rows = << <<0, 0, 40, 40>> >>

\* The input of a format conversion violates the ordering invariant of its
\* format.
ViolatesFormat ==
    \/ Done("bbox_TLBR2TLWH") /\ ~bboxcheck_TLBR(arg.bboxes_in)
    \/ Done("bbox_TLWH2TLBR") /\ ~bboxcheck_TLWH(arg.bboxes_in)

\* C8 (as stated): an input that violates the ordering invariant yields an
\* InvalidBoxFormat error and no converted box, on every call.
C8_InvalidAlwaysRejected ==
    ViolatesFormat => (ret.err = InvalidBoxFormat /\ ret.val = <<>>)

\* C8 (amended): when debug is true (the default), bbox_TLBR2TLWH and
\* bbox_TLWH2TLBR validate the ordering invariant of their input before
\* transforming, and an input that violates it yields an InvalidBoxFormat
\* error and no converted box; with debug false nothing is validated.
C8_InvalidRejectedInDebug ==
    (ViolatesFormat /\ arg.debug) => (ret.err = InvalidBoxFormat /\ ret.val = <<>>)

C8_Witness ==
    /\ Done("bbox_TLBR2TLWH")
    /\ arg.debug
    /\ arg.bboxes_in.rows[1][1] > arg.bboxes_in.rows[1][3]
    /\ ret.err = InvalidBoxFormat

ClipCall == Done("clip_bboxes_TLBR") \/ Done("clip_bboxes_TLWH")

\* C9 (as stated): a call with a negative or non-integer im_width or
\* im_height signals InvalidImageSize and returns no clipped box.
C9_BadSizeRejected ==
    (ClipCall /\ (\/ ~isinteger(arg.im_width) \/ ~isinteger(arg.im_height)
                  \/ arg.im_width.val < 0 \/ arg.im_height.val < 0))
        => (ret.err = InvalidImageSize /\ ret.val = <<>>)

\* C9 (amended): clip_bboxes_TLBR and clip_bboxes_TLWH signal
\* InvalidImageSize, and return no clipped box, exactly when debug is true
\* and im_width or im_height is not an integer; a negative integer size is
\* not rejected.
C9_NonIntegerRejectedInDebug ==
    ClipCall =>
        /\ (ret.err = InvalidImageSize) <=>
                (arg.debug /\ ~(isinteger(arg.im_width) /\ isinteger(arg.im_height)))
        /\ (ret.err = InvalidImageSize) => ret.val = <<>>

C9_Witness ==
    /\ Done("clip_bboxes_TLWH")
    /\ arg.debug
    /\ ~isinteger(arg.im_height)
    /\ isinteger(arg.im_width)
    /\ ret.err = InvalidImageSize

\* The round trip of the caller's points p: pts_conversion_back_bbox called,
\* with the same box b, on what pts_conversion_bbox(p, b) returned.
PtsRoundTrip ==
    /\ Done("pts_conversion_back_bbox")
    /\ arg.origin.dtype # "none"

\* Every p - x1 and p - y1 is computed without rounding in the dtype of the
\* points.
ExactOffsets(p, b) ==
    \A j \in 1..Len(p.rows[1]) :
        /\ FRound(p.rows[1][j] - b.rows[1][1]) = p.rows[1][j] - b.rows[1][1]
        /\ FRound(p.rows[2][j] - b.rows[1][2]) = p.rows[2][j] - b.rows[1][2]

\* C4 (as stated): for every point set p and every box b,
\* pts_conversion_back_bbox(pts_conversion_bbox(p, b), b) equals p.
C4_PtsRoundTripExact ==
    PtsRoundTrip => (ret.err = "none" /\ ret.val.rows = arg.origin.rows)

\* C4 (amended): for every point set p and box b of the same dtype,
\* pts_conversion_bbox subtracts the box's (x1, y1) from every point,
\* pts_conversion_back_bbox adds it back, a third (occlusion) row is left
\* unchanged, and the round trip equals p whenever the dtype is an integer
\* type or every difference p - x1, p - y1 is computed without float rounding.
C4_PtsRoundTripExactOffsets ==
    /\ Done("pts_conversion_bbox") =>
        /\ ret.err = "none"
        /\ \A j \in 1..Len(arg.pts_array.rows[1]) :
            /\ ret.val.rows[1][j] = NpSub(arg.pts_array.dtype, arg.pts_array.rows[1][j], arg.bboxes_in.rows[1][1])
            /\ ret.val.rows[2][j] = NpSub(arg.pts_array.dtype, arg.pts_array.rows[2][j], arg.bboxes_in.rows[1][2])
        /\ Len(ret.val.rows) = Len(arg.pts_array.rows)
        /\ Len(arg.pts_array.rows) = 3 => ret.val.rows[3] = arg.pts_array.rows[3]
    /\ (PtsRoundTrip /\ (arg.origin.dtype = "int" \/ ExactOffsets(arg.origin, arg.bboxes_in)))
            => (ret.err = "none" /\ ret.val.rows = arg.origin.rows)

C4_Witness ==
    /\ PtsRoundTrip
    /\ arg.origin.dtype = "float"
    /\ ExactOffsets(arg.origin, arg.bboxes_in)
    /\ Len(arg.origin.rows) = 3
    /\ Len(arg.origin.rows[1]) = 2
    /\ arg.bboxes_in.rows[1][1] # 0
    /\ arg.bboxes_in.rows[1][2] # 0
    /\ ret.val.rows = arg.origin.rows

\* The decoding of an encoding: bbox_transform_inv called, with the same
\* anchors, on what bbox_transform(anchors, targets) returned.
DecodedEncoding ==
    /\ Done("bbox_transform_inv")
    /\ arg.gt_rois # <<>>

\* |a - b| <= 1e-5
Close(a, b) == QLe(QAbs(QSub(a, b)), Q(1, 100000))

\* C3: for every anchor with positive width and height and every target,
\* bbox_transform_inv(a, bbox_transform(a, t)) equals t in all four
\* coordinates (x1, y1, x2, y2) up to 1e-5.
C3_DecodeInvertsEncode ==
    DecodedEncoding =>
        /\ ret.err = "none"
        /\ \A i \in 1..Len(arg.gt_rois) : \A k \in 1..4 :
                Close(ret.val[i][k], arg.gt_rois[i][k])

\* What the code does instead: x1 and y1 are reproduced, x2 and y2 come out
\* one pixel larger than the target's.
C3_DecodeOffByOne ==
    DecodedEncoding =>
        /\ ret.err = "none"
        /\ \A i \in 1..Len(arg.gt_rois) :
            /\ ret.val[i][1] = arg.gt_rois[i][1]
            /\ ret.val[i][2] = arg.gt_rois[i][2]
            /\ ret.val[i][3] = QAdd(arg.gt_rois[i][3], QInt(1))
            /\ ret.val[i][4] = QAdd(arg.gt_rois[i][4], QInt(1))

\* The ratio and the minimum bbox_enlarge uses along x and along y.
RatioX == IF ~IsNone(arg.width_ratio) /\ ~IsNone(arg.height_ratio) THEN arg.width_ratio ELSE arg.ratio
RatioY == IF ~IsNone(arg.width_ratio) /\ ~IsNone(arg.height_ratio) THEN arg.height_ratio ELSE arg.ratio
MinimumX == IF ~IsNone(arg.min_width) /\ ~IsNone(arg.min_height) THEN arg.min_width ELSE arg.min_length
MinimumY == IF ~IsNone(arg.min_width) /\ ~IsNone(arg.min_height) THEN arg.min_height ELSE arg.min_length

QMax(a, b) == IF QLt(a, b) THEN b ELSE a

\* Row i of the output is row i of the input grown along one axis (lo, hi
\* the indexes of its edges) by extra = max(size * ratio, minimum - size),
\* half on each edge; the size is then at least the minimum and the centre
\* is where it was.
GrownAlong(i, lo, hi, ratio, minimum) ==
    LET in == QRow(arg.bbox.rows[i])
        out == ret.val.rows[i]
        size == QSub(in[hi], in[lo])
        extra == QMax(QMul(size, ratio), QSub(minimum, size))
    IN  /\ out[lo] = QSub(in[lo], QMul(extra, QHalf))
        /\ out[hi] = QAdd(in[hi], QMul(extra, QHalf))
        /\ QLe(minimum, QSub(out[hi], out[lo]))
        /\ QAdd(out[lo], out[hi]) = QAdd(in[lo], in[hi])

EnlargeExample ==
    /\ arg.bbox.rows = << <<0, 0, 10, 10>> >>
    /\ RatioX = Q(1, 5)
    /\ RatioY = Q(1, 5)
    /\ MinimumX = QInt(0)
    /\ MinimumY = QInt(0)

\* C5: for every row of an N x 4 TLBR input (N >= 1), bbox_enlarge grows
\* each axis by extra = max(size * ratio, minimum - size), half on the low
\* edge and half on the high edge, so that the size is never below the
\* minimum and the centre is unchanged; and
\* bbox_enlarge([[0,0,10,10]], ratio=0.2, min_length=0) = [[-1,-1,11,11]].
C5_EnlargeEveryRow ==
    (Done("bbox_enlarge") /\ bboxcheck_TLBR(arg.bbox)) =>
        /\ ret.err = "none"
        /\ Len(ret.val.rows) = Len(arg.bbox.rows)
        /\ \A i \in 1..Len(arg.bbox.rows) :
            /\ GrownAlong(i, 1, 3, RatioX, MinimumX)
            /\ GrownAlong(i, 2, 4, RatioY, MinimumY)
        /\ EnlargeExample => ret.val.rows = QRows(<< <<-1, -1, 11, 11>> >>)

\* What the code does: the claim's statement for a matrix of one row, and
\* for more than one row an error and no box.
C5_EnlargeOneRowOnly ==
    (Done("bbox_enlarge") /\ bboxcheck_TLBR(arg.bbox)) =>
        IF Len(arg.bbox.rows) = 1
        THEN /\ ret.err = "none"
             /\ GrownAlong(1, 1, 3, RatioX, MinimumX)
             /\ GrownAlong(1, 2, 4, RatioY, MinimumY)
             /\ EnlargeExample => ret.val.rows = QRows(<< <<-1, -1, 11, 11>> >>)
        ELSE ret = Raised(AmbiguousTruthValue)

\* The caller's array holds, after the call, the values it was passed with.
InputUnchanged ==
    CASE fn \in {"bbox_TLBR2TLWH", "bbox_TLWH2TLBR", "clip_bboxes_TLBR", "clip_bboxes_TLWH"}
            -> mem = arg.bboxes_in
      [] fn = "pts_conversion_bbox" -> mem = arg.pts_array
      [] fn = "bbox_enlarge" -> mem.rows = QRows(arg.bbox.rows)
      [] fn = "apply_rotation_loose" -> mem = arg.all_boxes
      [] OTHER -> TRUE

\* C6: after a call to any of bbox_TLBR2TLWH, bbox_TLWH2TLBR,
\* clip_bboxes_TLBR, clip_bboxes_TLWH, pts_conversion_bbox, bbox_enlarge or
\* apply_rotation_loose, the caller's input matrix holds the same values as
\* before the call.
C6_InputsUnchanged ==
    pc = "done" => InputUnchanged

\* The 4 columns of slice s = (row, class) of a matrix.
SliceAt(m, s) == [k \in 1..4 |-> m[s[1]][s[2] * 4 + k]]

Pending(s) == \E i \in 1..Len(todo) : todo[i] = s

InRotationLoop ==
    /\ fn = "apply_rotation_loose"
    /\ pc \in {"loop", "done"}
    /\ arg.order # <<>>

\* C7: apply_rotation_loose transforms every (row, class) slice on its own:
\* in whatever order the slices are visited, a slice not yet visited holds
\* its original value and a visited slice holds the rotated-loose transform
\* of its own original value, and the matrix returned holds every slice
\* transformed, the same for every order.
C7_SlicesIndependent ==
    InRotationLoop =>
        /\ \A i \in 1..Len(arg.order) :
            LET s == arg.order[i]
                orig == SliceAt(arg.all_boxes, s)
                r == bbox_general2rotated_loose("float", orig, arg.angle_in_degree,
                                                arg.image_shape, arg.debug)
            IN  \/ Pending(s) /\ SliceAt(mem, s) = orig
                \/ ~Pending(s) /\ r.err = "none" /\ SliceAt(mem, s) = r.val
        /\ pc = "done" => (ret.err = "none" /\ ret.val = mem)

\* What the loop does instead: the transform of the first slice visited
\* raises NameError, whatever the order, and no slice is ever written.
C7_FirstSliceRaises ==
    (InRotationLoop /\ pc = "done") =>
        /\ ret = Raised(UnboundName)
        /\ mem = arg.all_boxes
        /\ Len(todo) = Len(arg.order) - 1

\* A call of the corner construction at an angle that is a multiple of 90.
RotationAtRightAngle ==
    /\ \/ Done("bbox_rotatedtight2rotatedloose")
       \/ Done("bbox_general2rotated_loose")
       \/ Done("apply_rotation_tight")
    /\ arg.angle_in_degree % 90 = 0

\* C10: when the angle is a multiple of 90 degrees, the tight-to-loose
\* corner construction signals DegenerateRotation instead of dividing by
\* zero or returning a box.
C10_DegenerateSignalled ==
    RotationAtRightAngle => ret.err = DegenerateRotation

\* What the construction does instead: DegenerateRotation is signalled at no
\* angle; a call that passes the size assertion raises NameError.
C10_ConstructionRaisesUnboundName ==
    RotationAtRightAngle =>
        /\ ret.err # DegenerateRotation
        /\ Len(arg.bbox_in) = 4 => ret = Raised(UnboundName)

\* A call of get_center_crop_bbox with rows of 2 elements (crop_w, crop_h).
TwoElementCrop ==
    /\ Done("get_center_crop_bbox")
    /\ \A i \in 1..Len(arg.center_bboxes_in.rows) : Len(arg.center_bboxes_in.rows[i]) = 2

IntegerDimensions == arg.im_width.type = "int" /\ arg.im_height.type = "int"
DimensionsMissing == arg.im_width = NoSize \/ arg.im_height = NoSize

CeilHalf(n) == (n + 1) \div 2
FloorHalf(n) == n \div 2

\* C11: for a 2-element input (crop_w, crop_h) with integer image dimensions
\* W and H, get_center_crop_bbox returns the TLWH box
\* [ceil(W/2) - ceil(crop_w/2), ceil(H/2) - ceil(crop_h/2), crop_w, crop_h],
\* for odd as well as even W, H, crop_w and crop_h; without image dimensions
\* it signals MissingImageDimensions.
C11_CenterCropAtCeil ==
    TwoElementCrop =>
        /\ IntegerDimensions =>
            ret = Returned([i \in 1..Len(arg.center_bboxes_in.rows) |->
                    LET c == arg.center_bboxes_in.rows[i]
                    IN  << CeilHalf(arg.im_width.val) - CeilHalf(c[1]),
                           CeilHalf(arg.im_height.val) - CeilHalf(c[2]), c[1], c[2] >>])
        /\ DimensionsMissing => ret.err = MissingImageDimensions

\* What the function returns instead: the quotient of two ints is already
\* the floor when np.ceil is applied, so the centre is floor(W/2), and so is
\* the half of a crop size held in an integer matrix; a missing dimension is
\* asserted only under debug, and is a TypeError of the division otherwise.
C11_CenterCropAtFloor ==
    TwoElementCrop =>
        /\ IntegerDimensions =>
            ret = Returned([i \in 1..Len(arg.center_bboxes_in.rows) |->
                    LET c == arg.center_bboxes_in.rows[i]
                        half(n) == IF arg.center_bboxes_in.dtype = "int"
                                   THEN FloorHalf(n) ELSE CeilHalf(n)
                    IN  << FloorHalf(arg.im_width.val) - half(c[1]),
                           FloorHalf(arg.im_height.val) - half(c[2]), c[1], c[2] >>])
        /\ DimensionsMissing =>
            ret.err = IF arg.debug THEN MissingImageDimensions ELSE NoneTypeOperand

NumPts == Len(arg.pts.rows[1])

\* The box [min(x), min(y), max(x), max(y)] of the caller's points.
ExactBox ==
    << << NpMin(arg.pts.rows[1]), NpMin(arg.pts.rows[2]),
          NpMax(arg.pts.rows[1]), NpMax(arg.pts.rows[2]) >> >>

PtsExample ==
    /\ arg.pts.rows[1] = <<2, 5, 4>>
    /\ arg.pts.rows[2] = <<3, 1, 9>>

\* Every coordinate of the caller's points is a float32.
SinglePrecisionPoints ==
    \A k \in 1..2 : \A i \in 1..NumPts : Float32(arg.pts.rows[k][i]) = arg.pts.rows[k][i]

\* C12 (as stated): for every point set with at least 2 points pts2bbox
\* returns the box [min(x), min(y), max(x), max(y)] over all points, and a
\* point set with fewer than 2 points signals InsufficientPoints.
C12_BoxOfPoints ==
    Done("pts2bbox") =>
        /\ NumPts >= 2 => (ret.err = "none" /\ ret.val.rows = ExactBox)
        /\ NumPts < 2 => ret.err = InsufficientPoints

\* C12 (amended): for every point set with at least 2 points whose
\* coordinates are float32 numbers, pts2bbox returns the 1 x 4 float32 box
\* [min(x), min(y), max(x), max(y)], [2,1,5,9] for the points (2,3), (5,1),
\* (4,9); other coordinates come back rounded to float32.  Under debug a
\* well-shaped point set of fewer than 2 points fails the assertion
\* (InsufficientPoints).
C12_BoxOfSinglePrecisionPoints ==
    Done("pts2bbox") =>
        /\ (NumPts >= 2 /\ SinglePrecisionPoints) => (ret.err = "none" /\ ret.val.rows = ExactBox)
        /\ (NumPts >= 2 /\ PtsExample) => ret.val.rows = << <<2, 1, 5, 9>> >>
        /\ NumPts >= 2 =>
            (ret.err = "none" /\ \A k \in 1..4 : ret.val.rows[1][k] = Float32(ExactBox[1][k]))
        /\ (arg.debug /\ is2dptsarray(arg.pts) /\ NumPts < 2) => ret.err = InsufficientPoints

C12_Witness ==
    /\ Done("pts2bbox")
    /\ PtsExample
    /\ ret.err = "none"
    /\ ret.val.rows = << <<2, 1, 5, 9>> >>

\* A call of one of the two rotations of a box at angle 0.
RotationByZero(f) ==
    /\ Done(f)
    /\ arg.angle_in_degree = 0
    /\ Len(arg.bbox_in) = 4

\* C13: for every box and every image shape, rotation at angle 0 is the
\* identity: bbox_rotation_inv(b, 0, shape) returns b, and
\* bbox_general2rotated_loose(b, 0, shape) returns b unchanged, within
\* tolerance.
C13_RotationByZeroIsIdentity ==
    (RotationByZero("bbox_rotation_inv") \/ RotationByZero("bbox_general2rotated_loose")) =>
        /\ ret.err = "none"
        /\ \A k \in 1..4 : Close(ret.val[k], arg.bbox_in[k])

\* What the two functions do instead: bbox_rotation_inv returns a float box
\* as it was given; bbox_general2rotated_loose raises NameError.
C13_RotationInvByZeroOfFloats ==
    /\ (RotationByZero("bbox_rotation_inv") /\ arg.dtype = "float") => ret = Returned(arg.bbox_in)
    /\ RotationByZero("bbox_general2rotated_loose") => ret = Raised(UnboundName)

\* bbox_rotation_inv at angle 0 gives back no box of an integer array: the
\* normalisation of a coordinate is floored to an even integer.
C13_RotationInvByZeroOfIntegers ==
    (RotationByZero("bbox_rotation_inv") /\ arg.dtype = "int") =>
        /\ ret.err = "none"
        /\ \E k \in 1..4 : ~Close(ret.val[k], arg.bbox_in[k])

=============================================================================
